---- MODULE Spec2Model ----
(***************************************************************************)
(* The generateUIComponent server action (src/src/lib/actions/             *)
(* generate-ui.ts) and the credits route handler (src/unnamed/part_000),   *)
(* as state machines over the hosted database tables (projects, screens,   *)
(* screen_versions) and the html-files storage bucket.                     *)
(*                                                                         *)
(* An async function runs without interruption between two awaits, so an   *)
(* action is: one awaited call completes with one of its outcomes (a       *)
(* value, a returned error, a thrown exception) and the code up to the     *)
(* next await runs.  The pc of an invocation names the call it awaits.     *)
(***************************************************************************)
EXTENDS Integers, Sequences, FiniteSets, TLC

VARIABLES inv, calls, clock, projects, screens, screen_versions, storage, credits,
          form, flow, dash

vars == <<inv, calls, clock, projects, screens, screen_versions, storage, credits,
          form, flow, dash>>

db == <<clock, projects, screens, screen_versions, storage>>

\* the state of the callers of generateUIComponent
client == <<form, flow, dash>>

-----------------------------------------------------------------------------
(* Bounds of the model *)

\* invocations of generateUIComponent that may be in flight together
MaxInv == 2
\* invocations started in one behaviour
MaxCalls == 3
\* screens the seeded project may hold before the first invocation
MaxSeedScreens == 1

\* prompt.length > 1000
MaxPromptLen == 1000

-----------------------------------------------------------------------------
(* Values *)

Undefined == "<undefined>"
Null == "<null>"

Users == {"u1", "u2"}

\* the project that exists before any invocation, and its owner
SeedProjectId == "p0"
SeedOwner == "u1"

\* crypto.randomUUID(): a value no other call returns; n is the number of
\* the invocation, k the call site
RandomUUID(k, n) == k \o ToString(n)

\* if (!projectId): undefined and the empty string are falsy
FalsyId(id) == id \in {Undefined, Null, ""}

\* A string is kept as the lengths of its leading whitespace, of its core
\* (first to last non-whitespace character) and of its trailing whitespace;
\* isString is FALSE for null/undefined.
Str(lead, core, trail) == [isString |-> TRUE, lead |-> lead, core |-> core, trail |-> trail]
NullPrompt == [isString |-> FALSE, lead |-> 0, core |-> 0, trail |-> 0]

\* prompt.length
Length(s) == s.lead + s.core + s.trail

\* prompt.trim()
Trim(s) == [s EXCEPT !.lead = 0, !.trail = 0]

\* !prompt
FalsyPrompt(s) == ~s.isString \/ Length(s) = 0

\* thrown values: an Error with a message, an Error without one, a non-Error
ErrorWithMessage == [isError |-> TRUE, message |-> "fetch failed"]
ErrorNoMessage == [isError |-> TRUE, message |-> ""]
NonError == [isError |-> FALSE, message |-> Undefined]

\* what generateObject yields
LlmResult == [name |-> "Login Screen", description |-> "A login form", html |-> "<div></div>"]

\* the awaited calls of an invocation
ExternalOps ==
    {"getCurrentUser", "createClient", "projectInsert", "projectVerify", "projectAccess",
     "projectUpdate", "getPrompt", "generateObject", "orderQuery", "upload",
     "screenInsert", "versionInsert"}

\* the calls that report a failure only by throwing: createClient,
\* getLangfuseSystemPrompt, generateObject
ThrowOnlyOps == {"createClient", "getPrompt", "generateObject"}

(* The inputs the caller may give and the values a failing call may throw. *)
FullDomain ==
    [prompts |-> {NullPrompt, Str(0, 0, 0), Str(1, 0, 0), Str(MaxPromptLen + 1, 0, 0),
                  Str(0, 1, 0), Str(1, 1, 1), Str(0, MaxPromptLen - 1, 0),
                  Str(0, MaxPromptLen, 0), Str(1, MaxPromptLen - 1, 0),
                  Str(0, MaxPromptLen + 1, 0), Str(1, MaxPromptLen, 0),
                  Str(1, MaxPromptLen - 1, 1)},
     projectIds |-> {Undefined, "", SeedProjectId, "p-missing"},
     orderQueryFails |-> TRUE,
     thrown |-> [op \in ExternalOps |-> {ErrorWithMessage, ErrorNoMessage, NonError}]]

CoreDomain ==
    [prompts |-> {Str(1, 0, 0), Str(0, 5, 0)},
     projectIds |-> {Undefined, SeedProjectId},
     orderQueryFails |-> TRUE,
     thrown |-> [op \in ExternalOps |-> {ErrorWithMessage}]]

\* as CoreDomain, with one way to fail for each call: the error it returns,
\* or an exception when it returns none
ConcurrentDomain ==
    [CoreDomain EXCEPT !.thrown =
        [op \in ExternalOps |-> IF op \in ThrowOnlyOps THEN {ErrorWithMessage} ELSE {}]]

\* as CoreDomain, with an order-index query that always answers
OrderedDomain == [CoreDomain EXCEPT !.orderQueryFails = FALSE]

-----------------------------------------------------------------------------
(* Results *)

NoResult == [success |-> FALSE, projectId |-> Undefined, error |-> Undefined]

Failure(msg) == [success |-> FALSE, projectId |-> Undefined, error |-> msg]

Success(id) == [success |-> TRUE, projectId |-> id, error |-> Undefined]

\* CatchResult without the fallback for a thrown value that is no Error
CatchResultMessageOnly(e) == Failure(e.message)

\* catch (error): error instanceof Error ? error.message : '...'
CatchResult(e) ==
    Failure(IF e.isError THEN e.message ELSE "An unexpected error occurred")

-----------------------------------------------------------------------------
(* An invocation *)

IdleInv ==
    [pc |-> "idle", n |-> 0, prompt |-> NullPrompt, projectId |-> Undefined,
     userId |-> Undefined, finalProjectId |-> Undefined, nextOrderIndex |-> 0,
     screenId |-> Undefined, versionId |-> Undefined, htmlFilePath |-> Undefined,
     result |-> NoResult,
     \* history, for the properties: the calls made, in order; the calls that
     \* failed and how; the writes that took effect; the thrown value caught;
     \* the screens of the project when the order query ran
     log |-> <<>>, failed |-> {}, wrote |-> <<>>, thrown |-> {}, seen |-> {}]

\* the invocation awaits the next call
Goto(me, op, pc) == [me EXCEPT !.pc = pc, !.log = Append(@, op)]

\* return r
ReturnResult(me, op, r) == [me EXCEPT !.pc = "done", !.result = r, !.log = Append(@, op)]

\* the awaited call returned an error (or no user, or no row)
HasFailed(me, op) == [me EXCEPT !.failed = @ \cup {<<op, "error">>}]

\* if (error) return { success: false, error: msg }
Errored(me, op, msg) == ReturnResult(HasFailed(me, op), op, Failure(msg))

\* the awaited call threw e: the catch block returns
Caught(me, op, e) ==
    [me EXCEPT !.pc = "done", !.result = CatchResult(e), !.thrown = {e},
               !.failed = @ \cup {<<op, "throw">>}, !.log = Append(@, op)]

\* a write that took effect
Wrote(me, kind, table, key) ==
    [me EXCEPT !.wrote = Append(@, [kind |-> kind, table |-> table, key |-> key])]

\* .single(): the row when exactly one matches, else an error and no data
Single(rows) ==
    IF Cardinality(rows) = 1
    THEN [data |-> rows, error |-> FALSE]
    ELSE [data |-> {}, error |-> TRUE]

\* the query itself failed
QueryFailed == [data |-> {}, error |-> TRUE]

\* .order('order_index', { ascending: false }).limit(1)
Last(rows) == {r \in rows : \A q \in rows : q.order_index <= r.order_index}

\* `projects/${finalProjectId}/screens/${screenId}/v1/index.html`
HtmlFilePath(projectId, screenId) ==
    "projects/" \o projectId \o "/screens/" \o screenId \o "/v1/index.html"

-----------------------------------------------------------------------------
(* Initial state *)

SeedScreenId(k) == "seed" \o ToString(k)

SeedScreens(k) ==
    {[id |-> SeedScreenId(j), project_id |-> SeedProjectId, name |-> LlmResult.name,
      order_index |-> j - 1] : j \in 1..k}

SeedVersions(k) ==
    {[id |-> "seedv" \o ToString(j), screen_id |-> SeedScreenId(j), version_number |-> 1,
      user_prompt |-> Str(0, 5, 0), ai_prompt |-> Str(0, 5, 0),
      html_file_path |-> HtmlFilePath(SeedProjectId, SeedScreenId(j)),
      created_by |-> SeedOwner, is_current |-> TRUE] : j \in 1..k}

SeedBlobs(k) ==
    {[bucket |-> "html-files", path |-> HtmlFilePath(SeedProjectId, SeedScreenId(j)),
      content |-> LlmResult.html, contentType |-> "text/html"] : j \in 1..k}

IdleCredits == [pc |-> "idle", user |-> Null, error |-> FALSE, thrown |-> {},
                status |-> 0, body |-> [error |-> Undefined]]

\* generateUIAndRedirect has neither redirected nor thrown
IdleForm == [pc |-> "idle", url |-> Undefined, message |-> Undefined]

\* ProjectFlow and its PromptInputNode as mounted: the prompt typed, the
\* state isGenerating, the isLoading of the last render, the calls of
\* generateUIComponent outstanding and made so far; and, for the properties,
\* what the last submit did and the steps of handleGenerateNewScreen
IdleFlow ==
    [prompt |-> Str(0, 0, 0), isGenerating |-> FALSE, isLoading |-> FALSE,
     calls |-> 0, made |-> 0, last |-> "none", sent |-> NullPrompt, log |-> <<>>]

\* handlePromptSubmit not called: where it stands, the user it was rendered
\* with, the result it was given; and, for the properties, its steps
IdleHandler == [pc |-> "idle", user |-> Null, result |-> NoResult, log |-> <<>>]

\* Dashboard as mounted: the user of useAuth(), the states isGenerating,
\* loading and error, the fetchProjects of the effect, the calls of
\* handlePromptSubmit, and the urls given to router.push
IdleDash ==
    [user |-> Null, isGenerating |-> FALSE, loading |-> TRUE, error |-> Null,
     effect |-> "idle", h |-> [k \in 1..MaxInv |-> IdleHandler], nav |-> <<>>]

InitWith(k) ==
    /\ inv = [i \in 1..MaxInv |-> IdleInv]
    /\ calls = 0
    /\ clock = 0
    /\ projects = {[id |-> SeedProjectId, user_id |-> SeedOwner, name |-> "seed",
                    description |-> Str(0, 5, 0), prompt |-> Str(0, 5, 0),
                    updated_at |-> 0]}
    /\ screens = SeedScreens(k)
    /\ screen_versions = SeedVersions(k)
    /\ storage = SeedBlobs(k)
    /\ credits = IdleCredits
    /\ form = IdleForm
    /\ flow = IdleFlow
    /\ dash = IdleDash

Init == \E k \in 0..MaxSeedScreens : InitWith(k)

\* the seeded project holds its screens
InitSeeded == InitWith(MaxSeedScreens)

-----------------------------------------------------------------------------
(* generateUIComponent *)

\* the validation with the limit one character too low
ValidationErrorInclusive(prompt) ==
    IF FalsyPrompt(prompt) \/ Length(Trim(prompt)) = 0
    THEN "Prompt is required"
    ELSE IF Length(prompt) >= MaxPromptLen
         THEN "Prompt is too long (max 1000 characters)"
         ELSE Undefined

\* lines 35-43
ValidationError(prompt) ==
    IF FalsyPrompt(prompt) \/ Length(Trim(prompt)) = 0
    THEN "Prompt is required"
    ELSE IF Length(prompt) > MaxPromptLen
         THEN "Prompt is too long (max 1000 characters)"
         ELSE Undefined

\* the call is made: the validation runs, then getCurrentUser() is awaited
Start(i, D) ==
    /\ inv[i].pc = "idle"
    /\ calls < MaxCalls
    /\ \A j \in 1..(i - 1) : inv[j].pc # "idle"
    /\ \E prompt \in D.prompts, projectId \in D.projectIds :
         LET me == [IdleInv EXCEPT !.n = calls + 1, !.prompt = prompt,
                                   !.projectId = projectId]
         IN inv' = [inv EXCEPT ![i] =
                      IF ValidationError(prompt) # Undefined
                      THEN ReturnResult(me, "validate", Failure(ValidationError(prompt)))
                      ELSE Goto(me, "validate", "getCurrentUser")]
    /\ calls' = calls + 1
    /\ UNCHANGED <<db, credits, client>>

\* GetCurrentUser that goes on when no user is signed in
GetCurrentUserGoingOn(i, D) ==
    /\ inv[i].pc = "getCurrentUser"
    /\ \/ \E user \in Users :
            inv' = [inv EXCEPT ![i] =
                      Goto([@ EXCEPT !.userId = user], "getCurrentUser", "createClient")]
       \/ inv' = [inv EXCEPT ![i] =
                    Goto(HasFailed(@, "getCurrentUser"), "getCurrentUser", "createClient")]
       \/ \E e \in D.thrown["getCurrentUser"] :
            inv' = [inv EXCEPT ![i] = Caught(@, "getCurrentUser", e)]
    /\ UNCHANGED <<calls, db, credits, client>>

\* lines 47-54
GetCurrentUser(i, D) ==
    /\ inv[i].pc = "getCurrentUser"
    /\ \/ \E user \in Users :
            inv' = [inv EXCEPT ![i] =
                      Goto([@ EXCEPT !.userId = user], "getCurrentUser", "createClient")]
       \/ inv' = [inv EXCEPT ![i] = Errored(@, "getCurrentUser", "Not authenticated")]
       \/ \E e \in D.thrown["getCurrentUser"] :
            inv' = [inv EXCEPT ![i] = Caught(@, "getCurrentUser", e)]
    /\ UNCHANGED <<calls, db, credits, client>>

\* lines 55-75, 105-107
CreateClient(i, D) ==
    /\ inv[i].pc = "createClient"
    /\ \/ inv' = [inv EXCEPT ![i] =
                    IF FalsyId(@.projectId)
                    THEN Goto([@ EXCEPT !.finalProjectId = RandomUUID("p", inv[i].n)],
                              "createClient", "projectInsert")
                    ELSE Goto([@ EXCEPT !.finalProjectId = inv[i].projectId],
                              "createClient", "projectAccess")]
       \/ \E e \in D.thrown["createClient"] :
            inv' = [inv EXCEPT ![i] = Caught(@, "createClient", e)]
    /\ UNCHANGED <<calls, db, credits, client>>

\* lines 76-90
ProjectInsert(i, D) ==
    /\ inv[i].pc = "projectInsert"
    /\ \/ /\ projects' = projects \cup
                {[id |-> inv[i].finalProjectId, user_id |-> inv[i].userId,
                  name |-> RandomUUID("name", inv[i].n),
                  description |-> inv[i].prompt, prompt |-> inv[i].prompt,
                  updated_at |-> clock + 1]}
          /\ clock' = clock + 1
          /\ inv' = [inv EXCEPT ![i] =
                       Goto(Wrote(@, "insert", "projects", inv[i].finalProjectId),
                            "projectInsert", "projectVerify")]
       \/ /\ inv' = [inv EXCEPT ![i] =
                       Errored(@, "projectInsert", "Failed to create project")]
          /\ UNCHANGED <<projects, clock>>
       \/ /\ \E e \in D.thrown["projectInsert"] :
               inv' = [inv EXCEPT ![i] = Caught(@, "projectInsert", e)]
          /\ UNCHANGED <<projects, clock>>
    /\ UNCHANGED <<calls, screens, screen_versions, storage, credits, client>>

\* the lookup without its .eq('user_id', userId) filter
OwnedProjectOfAnyUser(id, userId) ==
    Single({p \in projects : p.id = id})

\* .from('projects').select(...).eq('id', id).eq('user_id', userId).single()
OwnedProject(id, userId) ==
    Single({p \in projects : p.id = id /\ p.user_id = userId})

\* lines 93-104
ProjectVerify(i, D) ==
    /\ inv[i].pc = "projectVerify"
    /\ \/ \E r \in {OwnedProject(inv[i].finalProjectId, inv[i].userId), QueryFailed} :
            inv' = [inv EXCEPT ![i] =
                      IF r.error \/ r.data = {}
                      THEN Errored(@, "projectVerify", "Failed to verify project creation")
                      ELSE Goto(@, "projectVerify", "getPrompt")]
       \/ \E e \in D.thrown["projectVerify"] :
            inv' = [inv EXCEPT ![i] = Caught(@, "projectVerify", e)]
    /\ UNCHANGED <<calls, db, credits, client>>

\* lines 108-119
ProjectAccess(i, D) ==
    /\ inv[i].pc = "projectAccess"
    /\ \/ \E r \in {OwnedProject(inv[i].projectId, inv[i].userId), QueryFailed} :
            inv' = [inv EXCEPT ![i] =
                      IF r.error \/ r.data = {}
                      THEN Errored(@, "projectAccess", "Project not found or access denied")
                      ELSE Goto(@, "projectAccess", "projectUpdate")]
       \/ \E e \in D.thrown["projectAccess"] :
            inv' = [inv EXCEPT ![i] = Caught(@, "projectAccess", e)]
    /\ UNCHANGED <<calls, db, credits, client>>

\* the update without its .eq('id', projectId) filter
UpdatedProjectsUnfiltered(projectId, now) ==
    {[p EXCEPT !.updated_at = now] : p \in projects}

\* .from('projects').update({ updated_at }).eq('id', projectId)
UpdatedProjects(projectId, now) ==
    {IF p.id = projectId THEN [p EXCEPT !.updated_at = now] ELSE p : p \in projects}

\* lines 122-131: an update error is logged and the action goes on
ProjectUpdate(i, D) ==
    /\ inv[i].pc = "projectUpdate"
    /\ \/ /\ projects' = UpdatedProjects(inv[i].projectId, clock + 1)
          /\ clock' = clock + 1
          /\ inv' = [inv EXCEPT ![i] =
                       Goto(Wrote(@, "update", "projects", inv[i].projectId),
                            "projectUpdate", "getPrompt")]
       \/ /\ inv' = [inv EXCEPT ![i] =
                       Goto(HasFailed(@, "projectUpdate"), "projectUpdate", "getPrompt")]
          /\ UNCHANGED <<projects, clock>>
       \/ /\ \E e \in D.thrown["projectUpdate"] :
               inv' = [inv EXCEPT ![i] = Caught(@, "projectUpdate", e)]
          /\ UNCHANGED <<projects, clock>>
    /\ UNCHANGED <<calls, screens, screen_versions, storage, credits, client>>

\* GetPrompt with the model invocation left out
GetPromptSkippingModel(i, D) ==
    /\ inv[i].pc = "getPrompt"
    /\ \/ inv' = [inv EXCEPT ![i] = Goto(@, "getPrompt", "orderQuery")]
       \/ \E e \in D.thrown["getPrompt"] :
            inv' = [inv EXCEPT ![i] = Caught(@, "getPrompt", e)]
    /\ UNCHANGED <<calls, db, credits, client>>

\* lines 18-29, 169: getLangfuseSystemPrompt()
GetPrompt(i, D) ==
    /\ inv[i].pc = "getPrompt"
    /\ \/ inv' = [inv EXCEPT ![i] = Goto(@, "getPrompt", "generateObject")]
       \/ \E e \in D.thrown["getPrompt"] :
            inv' = [inv EXCEPT ![i] = Caught(@, "getPrompt", e)]
    /\ UNCHANGED <<calls, db, credits, client>>

\* lines 172-195
GenerateObject(i, D) ==
    /\ inv[i].pc = "generateObject"
    /\ \/ inv' = [inv EXCEPT ![i] = Goto(@, "generateObject", "orderQuery")]
       \/ \E e \in D.thrown["generateObject"] :
            inv' = [inv EXCEPT ![i] = Caught(@, "generateObject", e)]
    /\ UNCHANGED <<calls, db, credits, client>>

\* .from('screens').select('order_index').eq('project_id', id).order(...).limit(1).single()
LastScreen(projectId) ==
    LET last == Last({s \in screens : s.project_id = projectId})
    IN IF last = {} THEN QueryFailed
       ELSE [data |-> {CHOOSE s \in last : TRUE}, error |-> FALSE]

\* the index of the last screen, taken as it is
NextOrderIndexOfLast(r) ==
    IF r.data # {} THEN (CHOOSE s \in r.data : TRUE).order_index ELSE 0

\* lastScreen ? lastScreen.order_index + 1 : 0
NextOrderIndex(r) ==
    IF r.data # {} THEN (CHOOSE s \in r.data : TRUE).order_index + 1 ELSE 0

\* lines 199-216: the error of the query is not looked at
OrderQuery(i, D) ==
    /\ inv[i].pc = "orderQuery"
    /\ \/ \E r \in {LastScreen(inv[i].finalProjectId)} \cup
                     (IF D.orderQueryFails THEN {QueryFailed} ELSE {}) :
            inv' = [inv EXCEPT ![i] =
                      Goto([(IF r.error THEN HasFailed(@, "orderQuery") ELSE @)
                              EXCEPT !.nextOrderIndex = NextOrderIndex(r),
                                     !.seen = {s.id : s \in {q \in screens :
                                                  q.project_id = inv[i].finalProjectId}},
                                     !.screenId = RandomUUID("s", inv[i].n),
                                     !.versionId = RandomUUID("v", inv[i].n),
                                     !.htmlFilePath =
                                         HtmlFilePath(inv[i].finalProjectId,
                                                      RandomUUID("s", inv[i].n))],
                           "orderQuery", "upload")]
       \/ \E e \in D.thrown["orderQuery"] :
            inv' = [inv EXCEPT ![i] = Caught(@, "orderQuery", e)]
    /\ UNCHANGED <<calls, db, credits, client>>

\* Upload that tries again when the upload reports an error
UploadRetrying(i, D) ==
    /\ inv[i].pc = "upload"
    /\ \/ /\ storage' = storage \cup
                {[bucket |-> "html-files", path |-> inv[i].htmlFilePath,
                  content |-> LlmResult.html, contentType |-> "text/html"]}
          /\ inv' = [inv EXCEPT ![i] =
                       Goto(Wrote(@, "upload", "storage", inv[i].htmlFilePath),
                            "upload", "screenInsert")]
       \/ /\ inv' = [inv EXCEPT ![i] = Goto(HasFailed(@, "upload"), "upload", "upload")]
          /\ UNCHANGED storage
       \/ /\ \E e \in D.thrown["upload"] :
               inv' = [inv EXCEPT ![i] = Caught(@, "upload", e)]
          /\ UNCHANGED storage
    /\ UNCHANGED <<calls, clock, projects, screens, screen_versions, credits, client>>

\* Upload that logs the error of the upload and goes on
UploadIgnoringError(i, D) ==
    /\ inv[i].pc = "upload"
    /\ \/ /\ storage' = storage \cup
                {[bucket |-> "html-files", path |-> inv[i].htmlFilePath,
                  content |-> LlmResult.html, contentType |-> "text/html"]}
          /\ inv' = [inv EXCEPT ![i] =
                       Goto(Wrote(@, "upload", "storage", inv[i].htmlFilePath),
                            "upload", "screenInsert")]
       \/ /\ inv' = [inv EXCEPT ![i] =
                       Goto(HasFailed(@, "upload"), "upload", "screenInsert")]
          /\ UNCHANGED storage
       \/ /\ \E e \in D.thrown["upload"] :
               inv' = [inv EXCEPT ![i] = Caught(@, "upload", e)]
          /\ UNCHANGED storage
    /\ UNCHANGED <<calls, clock, projects, screens, screen_versions, credits, client>>

\* lines 218-229
Upload(i, D) ==
    /\ inv[i].pc = "upload"
    /\ \/ /\ storage' = storage \cup
                {[bucket |-> "html-files", path |-> inv[i].htmlFilePath,
                  content |-> LlmResult.html, contentType |-> "text/html"]}
          /\ inv' = [inv EXCEPT ![i] =
                       Goto(Wrote(@, "upload", "storage", inv[i].htmlFilePath),
                            "upload", "screenInsert")]
       \/ /\ inv' = [inv EXCEPT ![i] = Errored(@, "upload", "Failed to upload HTML")]
          /\ UNCHANGED storage
       \/ /\ \E e \in D.thrown["upload"] :
               inv' = [inv EXCEPT ![i] = Caught(@, "upload", e)]
          /\ UNCHANGED storage
    /\ UNCHANGED <<calls, clock, projects, screens, screen_versions, credits, client>>

\* ScreenInsert that logs the error of the insert and goes on
ScreenInsertIgnoringError(i, D) ==
    /\ inv[i].pc = "screenInsert"
    /\ \/ /\ screens' = screens \cup
                {[id |-> inv[i].screenId, project_id |-> inv[i].finalProjectId,
                  name |-> LlmResult.name, order_index |-> inv[i].nextOrderIndex]}
          /\ inv' = [inv EXCEPT ![i] =
                       Goto(Wrote(@, "insert", "screens", inv[i].screenId),
                            "screenInsert", "versionInsert")]
       \/ /\ inv' = [inv EXCEPT ![i] =
                       Goto(HasFailed(@, "screenInsert"), "screenInsert", "versionInsert")]
          /\ UNCHANGED screens
       \/ /\ \E e \in D.thrown["screenInsert"] :
               inv' = [inv EXCEPT ![i] = Caught(@, "screenInsert", e)]
          /\ UNCHANGED screens
    /\ UNCHANGED <<calls, clock, projects, screen_versions, storage, credits, client>>

\* ScreenInsert that numbers the screen when it inserts it
ScreenInsertNumbering(i, D) ==
    /\ inv[i].pc = "screenInsert"
    /\ \/ /\ screens' = screens \cup
                {[id |-> inv[i].screenId, project_id |-> inv[i].finalProjectId,
                  name |-> LlmResult.name,
                  order_index |-> NextOrderIndex(LastScreen(inv[i].finalProjectId))]}
          /\ inv' = [inv EXCEPT ![i] =
                       Goto(Wrote(@, "insert", "screens", inv[i].screenId),
                            "screenInsert", "versionInsert")]
       \/ /\ inv' = [inv EXCEPT ![i] =
                       Errored(@, "screenInsert", "Failed to create screen")]
          /\ UNCHANGED screens
       \/ /\ \E e \in D.thrown["screenInsert"] :
               inv' = [inv EXCEPT ![i] = Caught(@, "screenInsert", e)]
          /\ UNCHANGED screens
    /\ UNCHANGED <<calls, clock, projects, screen_versions, storage, credits, client>>

\* lines 233-246
ScreenInsert(i, D) ==
    /\ inv[i].pc = "screenInsert"
    /\ \/ /\ screens' = screens \cup
                {[id |-> inv[i].screenId, project_id |-> inv[i].finalProjectId,
                  name |-> LlmResult.name, order_index |-> inv[i].nextOrderIndex]}
          /\ inv' = [inv EXCEPT ![i] =
                       Goto(Wrote(@, "insert", "screens", inv[i].screenId),
                            "screenInsert", "versionInsert")]
       \/ /\ inv' = [inv EXCEPT ![i] =
                       Errored(@, "screenInsert", "Failed to create screen")]
          /\ UNCHANGED screens
       \/ /\ \E e \in D.thrown["screenInsert"] :
               inv' = [inv EXCEPT ![i] = Caught(@, "screenInsert", e)]
          /\ UNCHANGED screens
    /\ UNCHANGED <<calls, clock, projects, screen_versions, storage, credits, client>>

\* VersionInsert that returns the projectId it was called with
VersionInsertReturningArgument(i, D) ==
    /\ inv[i].pc = "versionInsert"
    /\ \/ /\ screen_versions' = screen_versions \cup
                {[id |-> inv[i].versionId, screen_id |-> inv[i].screenId,
                  version_number |-> 1, user_prompt |-> inv[i].prompt,
                  ai_prompt |-> inv[i].prompt, html_file_path |-> inv[i].htmlFilePath,
                  created_by |-> inv[i].userId, is_current |-> TRUE]}
          /\ inv' = [inv EXCEPT ![i] =
                       ReturnResult(Wrote(@, "insert", "screen_versions", inv[i].versionId),
                                    "versionInsert", Success(inv[i].projectId))]
          /\ UNCHANGED screens
       \/ /\ inv' = [inv EXCEPT ![i] =
                       Errored(@, "versionInsert", "Failed to create screen version")]
          /\ UNCHANGED <<screen_versions, screens>>
       \/ /\ \E e \in D.thrown["versionInsert"] :
               inv' = [inv EXCEPT ![i] = Caught(@, "versionInsert", e)]
          /\ UNCHANGED <<screen_versions, screens>>
    /\ UNCHANGED <<calls, clock, projects, storage, credits, client>>

\* VersionInsert that removes the screen row when the version insert fails
VersionInsertRollingBack(i, D) ==
    /\ inv[i].pc = "versionInsert"
    /\ \/ /\ screen_versions' = screen_versions \cup
                {[id |-> inv[i].versionId, screen_id |-> inv[i].screenId,
                  version_number |-> 1, user_prompt |-> inv[i].prompt,
                  ai_prompt |-> inv[i].prompt, html_file_path |-> inv[i].htmlFilePath,
                  created_by |-> inv[i].userId, is_current |-> TRUE]}
          /\ inv' = [inv EXCEPT ![i] =
                       ReturnResult(Wrote(@, "insert", "screen_versions", inv[i].versionId),
                                    "versionInsert", Success(inv[i].finalProjectId))]
          /\ UNCHANGED screens
       \/ /\ inv' = [inv EXCEPT ![i] =
                       Errored(@, "versionInsert", "Failed to create screen version")]
          /\ screens' = {r \in screens : r.id # inv[i].screenId}
          /\ UNCHANGED screen_versions
       \/ /\ \E e \in D.thrown["versionInsert"] :
               inv' = [inv EXCEPT ![i] = Caught(@, "versionInsert", e)]
          /\ UNCHANGED <<screen_versions, screens>>
    /\ UNCHANGED <<calls, clock, projects, storage, credits, client>>

\* lines 250-274
VersionInsert(i, D) ==
    /\ inv[i].pc = "versionInsert"
    /\ \/ /\ screen_versions' = screen_versions \cup
                {[id |-> inv[i].versionId, screen_id |-> inv[i].screenId,
                  version_number |-> 1, user_prompt |-> inv[i].prompt,
                  ai_prompt |-> inv[i].prompt, html_file_path |-> inv[i].htmlFilePath,
                  created_by |-> inv[i].userId, is_current |-> TRUE]}
          /\ inv' = [inv EXCEPT ![i] =
                       ReturnResult(Wrote(@, "insert", "screen_versions", inv[i].versionId),
                                    "versionInsert", Success(inv[i].finalProjectId))]
       \/ /\ inv' = [inv EXCEPT ![i] =
                       Errored(@, "versionInsert", "Failed to create screen version")]
          /\ UNCHANGED screen_versions
       \/ /\ \E e \in D.thrown["versionInsert"] :
               inv' = [inv EXCEPT ![i] = Caught(@, "versionInsert", e)]
          /\ UNCHANGED screen_versions
    /\ UNCHANGED <<calls, clock, projects, screens, storage, credits, client>>

\* the caller has the result; the next call may be made
Return(i) ==
    /\ inv[i].pc = "done"
    /\ inv' = [inv EXCEPT ![i] = IdleInv]
    /\ UNCHANGED <<calls, db, credits, client>>

-----------------------------------------------------------------------------
(* GET of the credits route *)

CreditsRequest ==
    /\ credits.pc \in {"idle", "responded"}
    /\ credits' = [IdleCredits EXCEPT !.pc = "createClient"]
    /\ UNCHANGED <<inv, calls, db, client>>

\* catch: status 500
CreditsCaught(e) ==
    [credits EXCEPT !.pc = "responded", !.thrown = {e}, !.status = 500,
                    !.body = [error |-> "Failed to get credit status",
                              details |-> IF e.isError THEN e.message ELSE "Unknown error"]]

CreditsCreateClient(D) ==
    /\ credits.pc = "createClient"
    /\ \/ credits' = [credits EXCEPT !.pc = "getUser"]
       \/ \E e \in D.thrown["createClient"] : credits' = CreditsCaught(e)
    /\ UNCHANGED <<inv, calls, db, client>>

\* the response when only the user, not the error, of getUser is looked at
CreditsResponseIgnoringError(user, error) ==
    IF user = Null
    THEN [credits EXCEPT !.pc = "responded", !.user = user, !.error = error,
                         !.status = 401, !.body = [error |-> "User not authenticated"]]
    ELSE [credits EXCEPT !.pc = "responded", !.user = user, !.error = error,
                         !.status = 200,
                         !.body = [credits |-> 999999, plan |-> "unlimited",
                                   hasSubscription |-> TRUE]]

\* lines 9-20
CreditsResponse(user, error) ==
    IF error \/ user = Null
    THEN [credits EXCEPT !.pc = "responded", !.user = user, !.error = error,
                         !.status = 401, !.body = [error |-> "User not authenticated"]]
    ELSE [credits EXCEPT !.pc = "responded", !.user = user, !.error = error,
                         !.status = 200,
                         !.body = [credits |-> 999999, plan |-> "unlimited",
                                   hasSubscription |-> TRUE]]

CreditsGetUser(D) ==
    /\ credits.pc = "getUser"
    /\ \/ \E user \in Users \cup {Null}, error \in BOOLEAN :
            credits' = CreditsResponse(user, error)
       \/ \E e \in D.thrown["getCurrentUser"] : credits' = CreditsCaught(e)
    /\ UNCHANGED <<inv, calls, db, client>>

-----------------------------------------------------------------------------
(* generateUIAndRedirect *)

\* as FullDomain, with the projectId of a form that has no such field
FormDomain == [FullDomain EXCEPT !.projectIds = @ \cup {Null}]

\* result.error || 'Failed to generate UI'
ErrorMessage(result) ==
    IF result.error \in {Undefined, ""} THEN "Failed to generate UI" ELSE result.error

\* generateUIAndRedirect that throws the returned error as it is
GenerateUIAndRedirectRawError(i) ==
    /\ inv[i].pc = "done"
    /\ form.pc = "idle"
    /\ form' = IF inv[i].result.success /\ ~FalsyId(inv[i].result.projectId)
               THEN [pc |-> "redirected", url |-> "/project/" \o inv[i].result.projectId,
                     message |-> Undefined]
               ELSE [pc |-> "threw", url |-> Undefined, message |-> inv[i].result.error]
    /\ UNCHANGED <<inv, calls, db, credits, flow, dash>>

\* lines 285-296, from the result of the awaited generateUIComponent on
GenerateUIAndRedirect(i) ==
    /\ inv[i].pc = "done"
    /\ form.pc = "idle"
    /\ form' = IF inv[i].result.success /\ ~FalsyId(inv[i].result.projectId)
               THEN [pc |-> "redirected", url |-> "/project/" \o inv[i].result.projectId,
                     message |-> Undefined]
               ELSE [pc |-> "threw", url |-> Undefined,
                     message |-> ErrorMessage(inv[i].result)]
    /\ UNCHANGED <<inv, calls, db, credits, flow, dash>>

-----------------------------------------------------------------------------
(* ProjectFlow *)

\* what is typed: nothing, whitespace, a text with whitespace around it
FlowPrompts == {Str(0, 0, 0), Str(1, 0, 0), Str(1, 5, 1)}

\* keys pressed in the textarea
Keys == [key : {"Enter", "a"}, metaKey : BOOLEAN, ctrlKey : BOOLEAN]

\* how the awaited generateUIComponent and what follows it can end
FlowOutcomes == {"refreshed", "refresh threw", "failure logged", "rejection logged"}

\* onChange of the textarea, which is disabled while isLoading
SetPrompt ==
    /\ ~flow.isLoading
    /\ \E p \in FlowPrompts \ {flow.prompt} : flow' = [flow EXCEPT !.prompt = p]
    /\ UNCHANGED <<inv, calls, db, credits, form, dash>>

\* handleSubmit that tests the prompt without trimming it
SubmittedUntrimmed(how) ==
    IF Length(flow.prompt) > 0 /\ ~flow.isLoading
    THEN [flow EXCEPT !.isGenerating = TRUE, !.isLoading = TRUE,
                      !.calls = @ + 1, !.made = @ + 1,
                      !.sent = Trim(flow.prompt), !.prompt = Str(0, 0, 0),
                      !.last = how,
                      !.log = <<"setIsGenerating(true)", "generateUIComponent">>]
    ELSE [flow EXCEPT !.last = "ignored"]

\* handleSubmit, and in it handleGenerateNewScreen up to its await; the
\* state set in the handler of a click or a key is rendered before the
\* next event is handled
Submitted(how) ==
    IF Length(Trim(flow.prompt)) > 0 /\ ~flow.isLoading
    THEN [flow EXCEPT !.isGenerating = TRUE, !.isLoading = TRUE,
                      !.calls = @ + 1, !.made = @ + 1,
                      !.sent = Trim(flow.prompt), !.prompt = Str(0, 0, 0),
                      !.last = how,
                      !.log = <<"setIsGenerating(true)", "generateUIComponent">>]
    ELSE [flow EXCEPT !.last = "ignored"]

\* onClick of the button
HandleSubmit ==
    /\ flow.made < MaxCalls
    /\ flow' = Submitted("button")
    /\ UNCHANGED <<inv, calls, db, credits, form, dash>>

\* onKeyDown of the textarea
HandleKeyDown ==
    /\ flow.made < MaxCalls
    /\ \E e \in Keys :
         flow' = IF e.key = "Enter" /\ (e.metaKey \/ e.ctrlKey)
                 THEN Submitted("key")
                 ELSE [flow EXCEPT !.last = "other key"]
    /\ UNCHANGED <<inv, calls, db, credits, form, dash>>

\* handleGenerateNewScreen from its await on: the call returns success
\* (router.refresh(), which may throw) or no success, or it rejects; finally
\* setIsGenerating(false)
GenerateSettles ==
    /\ flow.calls > 0
    /\ \E outcome \in FlowOutcomes :
         flow' = [flow EXCEPT !.calls = @ - 1, !.isGenerating = FALSE,
                              !.log = flow.log \o <<outcome, "setIsGenerating(false)">>]
    /\ UNCHANGED <<inv, calls, db, credits, form, dash>>

\* the render after a state change made outside an event handler
Render ==
    /\ flow.isLoading # flow.isGenerating
    /\ flow' = [flow EXCEPT !.isLoading = flow.isGenerating]
    /\ UNCHANGED <<inv, calls, db, credits, form, dash>>

-----------------------------------------------------------------------------
(* Dashboard *)

\* what generateUIComponent gives the Dashboard, which calls it without a
\* projectId: success with the id of the new project, or an error string
DashResults == {Success(RandomUUID("p", 1)), Failure("Failed to upload HTML")}

\* values a rejected or throwing call throws
DashThrown == {ErrorWithMessage, NonError}

\* how the projects query ends: with data, or with an error that is thrown
FetchOutcomes ==
    {[failed |-> FALSE, e |-> NonError]} \cup {[failed |-> TRUE, e |-> e] : e \in DashThrown}

\* how router.push ends
PushOutcomes ==
    {[failed |-> FALSE, e |-> NonError]} \cup {[failed |-> TRUE, e |-> e] : e \in DashThrown}

\* err instanceof Error ? err.message : 'Failed to load projects'
FetchMessage(e) == IF e.isError THEN e.message ELSE "Failed to load projects"

\* error instanceof Error ? error.message : 'An unexpected error occurred'
SubmitMessage(e) == IF e.isError THEN e.message ELSE "An unexpected error occurred"

\* lines 45-51 of fetchProjects: the state after the query ended
Fetched(d, o) ==
    [d EXCEPT !.loading = FALSE,
              !.error = IF o.failed THEN FetchMessage(o.e) ELSE @]

\* lines 69-78 of handlePromptSubmit: the push, the catch, the finally
Pushed(d, k, push) ==
    LET r == d.h[k].result
    IN IF FalsyId(r.projectId)
       THEN [d EXCEPT !.isGenerating = FALSE, !.h[k].pc = "done"]
       ELSE IF push.failed
            THEN [d EXCEPT !.error = SubmitMessage(push.e), !.isGenerating = FALSE,
                           !.h[k].pc = "done",
                           !.h[k].log = Append(@, "router.push threw")]
            ELSE [d EXCEPT !.nav = Append(@, "/project/" \o r.projectId),
                           !.isGenerating = FALSE, !.h[k].pc = "done",
                           !.h[k].log = Append(@, "router.push")]

\* useAuth() gives a user: the effect calls fetchProjects, up to its await
AuthChanges ==
    /\ dash.user = Null
    /\ \E user \in {SeedOwner} :
         dash' = [dash EXCEPT !.user = user, !.loading = TRUE, !.error = Null,
                              !.effect = "fetching"]
    /\ UNCHANGED <<inv, calls, db, credits, form, flow>>

\* the fetchProjects of the effect, from its await on
EffectFetchSettles ==
    /\ dash.effect = "fetching"
    /\ \E o \in FetchOutcomes :
         dash' = [Fetched(dash, o) EXCEPT !.effect = "done"]
    /\ UNCHANGED <<inv, calls, db, credits, form, flow>>

\* lines 60-65: handlePromptSubmit up to its await
HandlePromptSubmit(k) ==
    /\ dash.h[k].pc = "idle"
    /\ \A j \in 1..(k - 1) : dash.h[j].pc # "idle"
    /\ dash' = [dash EXCEPT !.isGenerating = TRUE, !.error = Null,
                            !.h[k] = [IdleHandler EXCEPT
                                        !.pc = "generateUIComponent",
                                        !.user = dash.user,
                                        !.log = <<"generateUIComponent">>]]
    /\ UNCHANGED <<inv, calls, db, credits, form, flow>>

\* ResultHandled that leaves isGenerating as it is when the call rejects
ResultHandledWithoutFinally(k) ==
    /\ dash.h[k].pc = "generateUIComponent"
    /\ \/ \E r \in DashResults, push \in PushOutcomes :
            LET got == [dash EXCEPT !.h[k].result = r]
            IN dash' =
                 IF ~r.success
                 THEN [got EXCEPT !.isGenerating = FALSE, !.h[k].pc = "done"]
                 ELSE IF dash.h[k].user # Null
                      THEN [got EXCEPT !.loading = TRUE, !.error = Null,
                                       !.h[k].pc = "fetchProjects",
                                       !.h[k].log = Append(@, "fetchProjects")]
                      ELSE Pushed(got, k, push)
       \/ \E e \in DashThrown :
            dash' = [dash EXCEPT !.error = SubmitMessage(e),
                                 !.h[k].pc = "done",
                                 !.h[k].log = Append(@, "rejected")]
    /\ UNCHANGED <<inv, calls, db, credits, form, flow>>

\* ResultHandled that shows the error of a result without success
ResultHandledShowingError(k) ==
    /\ dash.h[k].pc = "generateUIComponent"
    /\ \/ \E r \in DashResults, push \in PushOutcomes :
            LET got == [dash EXCEPT !.h[k].result = r]
            IN dash' =
                 IF ~r.success
                 THEN [got EXCEPT !.error = r.error, !.isGenerating = FALSE,
                                  !.h[k].pc = "done"]
                 ELSE IF dash.h[k].user # Null
                      THEN [got EXCEPT !.loading = TRUE, !.error = Null,
                                       !.h[k].pc = "fetchProjects",
                                       !.h[k].log = Append(@, "fetchProjects")]
                      ELSE Pushed(got, k, push)
       \/ \E e \in DashThrown :
            dash' = [dash EXCEPT !.error = SubmitMessage(e), !.isGenerating = FALSE,
                                 !.h[k].pc = "done",
                                 !.h[k].log = Append(@, "rejected")]
    /\ UNCHANGED <<inv, calls, db, credits, form, flow>>

\* lines 65-78: generateUIComponent settled. With success and a user,
\* fetchProjects runs up to its await; with success and no user the push
\* follows at once; without success nothing is done; a rejection is caught
ResultHandled(k) ==
    /\ dash.h[k].pc = "generateUIComponent"
    /\ \/ \E r \in DashResults, push \in PushOutcomes :
            LET got == [dash EXCEPT !.h[k].result = r]
            IN dash' =
                 IF ~r.success
                 THEN [got EXCEPT !.isGenerating = FALSE, !.h[k].pc = "done"]
                 ELSE IF dash.h[k].user # Null
                      THEN [got EXCEPT !.loading = TRUE, !.error = Null,
                                       !.h[k].pc = "fetchProjects",
                                       !.h[k].log = Append(@, "fetchProjects")]
                      ELSE Pushed(got, k, push)
       \/ \E e \in DashThrown :
            dash' = [dash EXCEPT !.error = SubmitMessage(e), !.isGenerating = FALSE,
                                 !.h[k].pc = "done",
                                 !.h[k].log = Append(@, "rejected")]
    /\ UNCHANGED <<inv, calls, db, credits, form, flow>>

\* lines 68-78: the fetchProjects awaited by handlePromptSubmit settled
RefetchSettles(k) ==
    /\ dash.h[k].pc = "fetchProjects"
    /\ \E o \in FetchOutcomes, push \in PushOutcomes :
         dash' = Pushed([Fetched(dash, o) EXCEPT
                           !.h[k].log = Append(@, "fetchProjects settled")],
                        k, push)
    /\ UNCHANGED <<inv, calls, db, credits, form, flow>>

-----------------------------------------------------------------------------
(* Specifications *)

Step(i, D) ==
    \/ Start(i, D)
    \/ GetCurrentUser(i, D)
    \/ CreateClient(i, D)
    \/ ProjectInsert(i, D)
    \/ ProjectVerify(i, D)
    \/ ProjectAccess(i, D)
    \/ ProjectUpdate(i, D)
    \/ GetPrompt(i, D)
    \/ GenerateObject(i, D)
    \/ OrderQuery(i, D)
    \/ Upload(i, D)
    \/ ScreenInsert(i, D)
    \/ VersionInsert(i, D)

\* invocations in flight together
Next == \E i \in 1..MaxInv : Step(i, ConcurrentDomain)

Spec == InitSeeded /\ [][Next]_vars

\* one invocation and the credits route, over every input and failure
NextOne ==
    \/ Step(1, FullDomain)
    \/ CreditsRequest
    \/ CreditsCreateClient(FullDomain)
    \/ CreditsGetUser(FullDomain)

SpecOne == Init /\ [][NextOne]_vars

\* invocations one after another
NextSeq ==
    \/ Step(1, CoreDomain)
    \/ Return(1)

SpecSeq == Init /\ [][NextSeq]_vars

\* one form submission: generateUIAndRedirect and the invocation it awaits
NextForm ==
    \/ Step(1, FormDomain)
    \/ GenerateUIAndRedirect(1)

SpecForm == Init /\ [][NextForm]_vars

\* ProjectFlow, the user typing and submitting at any time
NextFlow ==
    \/ SetPrompt
    \/ HandleSubmit
    \/ HandleKeyDown
    \/ GenerateSettles
    \/ Render

SpecFlow == Init /\ [][NextFlow]_vars

\* Dashboard, its submits in flight together
NextDash ==
    \/ AuthChanges
    \/ EffectFetchSettles
    \/ \E k \in 1..MaxInv :
          \/ HandlePromptSubmit(k)
          \/ ResultHandled(k)
          \/ RefetchSettles(k)

SpecDash == Init /\ [][NextDash]_vars

\* the two pages that call generateUIComponent; one is mounted at a time
NextClient ==
    \/ dash = IdleDash /\ SetPrompt
    \/ dash = IdleDash /\ HandleSubmit
    \/ dash = IdleDash /\ HandleKeyDown
    \/ dash = IdleDash /\ GenerateSettles
    \/ dash = IdleDash /\ Render
    \/ flow = IdleFlow /\ AuthChanges
    \/ flow = IdleFlow /\ EffectFetchSettles
    \/ \E k \in 1..MaxInv : flow = IdleFlow /\ HandlePromptSubmit(k)
    \/ \E k \in 1..MaxInv : flow = IdleFlow /\ ResultHandled(k)
    \/ \E k \in 1..MaxInv : flow = IdleFlow /\ RefetchSettles(k)

SpecClient == Init /\ [][NextClient]_vars

\* invocations one after another, the order-index query always answering
NextSeqOrdered ==
    \/ Step(1, OrderedDomain)
    \/ Return(1)

SpecSeqOrdered == Init /\ [][NextSeqOrdered]_vars

-----------------------------------------------------------------------------
(* Properties *)

Invs == 1..MaxInv

Returned(i) == inv[i].pc = "done"

Count(log, op) == Cardinality({k \in DOMAIN log : log[k] = op})

Last1(log) == log[Len(log)]

\* the steps the order of which C1 is about
IsMainStep(op) ==
    op \in {"validate", "getCurrentUser", "projectInsert", "projectAccess",
            "generateObject", "upload", "screenInsert", "versionInsert"}

\* C1: an invocation that returns success=true has made, in this order and
\* once each: the prompt validation, the current-user lookup, the project
\* insert (no projectId given) or the project access lookup (projectId
\* given), the model invocation, the HTML upload, the screen insert and the
\* screen_versions insert.
C1_SuccessOrder ==
    \A i \in Invs :
        inv[i].result.success =>
            SelectSeq(inv[i].log, IsMainStep) =
                <<"validate", "getCurrentUser",
                  IF FalsyId(inv[i].projectId) THEN "projectInsert" ELSE "projectAccess",
                  "generateObject", "upload", "screenInsert", "versionInsert">>

C1_Witness ==
    \E i \in Invs :
        /\ Returned(i) /\ inv[i].result.success
        /\ ~FalsyId(inv[i].projectId)
        /\ Len(inv[i].log) = 11

\* C2 as claimed: every invocation that has ended returned success=true with
\* a projectId, or success=false with a non-empty error string.
C2_NonEmptyError ==
    \A i \in Invs :
        Returned(i) =>
            \/ inv[i].result.success /\ ~FalsyId(inv[i].result.projectId)
            \/ ~inv[i].result.success /\ inv[i].result.error \notin {Undefined, ""}

\* C2 amended: every call that throws is caught and the invocation ends with
\* a result: success=true with a projectId, or success=false with an error
\* string; that string is empty only when the value thrown is an Error with
\* an empty message, which the catch block returns as it is.
C2_AlwaysAResult ==
    \A i \in Invs :
        /\ (inv[i].failed # {} /\ \E f \in inv[i].failed : f[2] = "throw") => Returned(i)
        /\ Returned(i) =>
            \/ /\ inv[i].result.success
               /\ ~FalsyId(inv[i].result.projectId)
               /\ inv[i].result.error = Undefined
            \/ /\ ~inv[i].result.success
               /\ inv[i].result.error # Undefined
               /\ inv[i].result.error = "" =>
                      \E e \in inv[i].thrown : e.isError /\ e.message = ""
               /\ inv[i].thrown # {} =>
                      \E e \in inv[i].thrown :
                          inv[i].result.error =
                              IF e.isError THEN e.message
                              ELSE "An unexpected error occurred"

C2_Witness ==
    \E i \in Invs :
        /\ Returned(i)
        /\ inv[i].thrown = {ErrorNoMessage}
        /\ inv[i].result = Failure("")
        /\ <<"generateObject", "throw">> \in inv[i].failed

\* C3 as claimed: when a call to an external service has failed, the
\* invocation has returned success=false with an error string and the
\* failed call is the last step it made.
C3_EveryFailureEnds ==
    \A i \in Invs :
        inv[i].failed # {} =>
            /\ Returned(i)
            /\ ~inv[i].result.success
            /\ inv[i].result.error # Undefined
            /\ \A f \in inv[i].failed : Last1(inv[i].log) = f[1]

\* the failures the action goes on after: the error returned by the
\* updated_at update (logged) and by the order-index query (not looked at)
IsTolerated(f) == f \in {<<"projectUpdate", "error">>, <<"orderQuery", "error">>}

\* C3 amended: when a call to an external service has failed, other than
\* the updated_at update or the order-index query returning an error, the
\* invocation has returned success=false with an error string and the failed
\* call is the last step it made; after an error returned by the updated_at
\* update or by the order-index query the invocation goes on (the order
\* index is then 0).
C3_FailureEndsUnlessTolerated ==
    \A i \in Invs :
        /\ \A f \in inv[i].failed :
              ~IsTolerated(f) =>
                  /\ Returned(i)
                  /\ ~inv[i].result.success
                  /\ inv[i].result.error # Undefined
                  /\ Last1(inv[i].log) = f[1]
        /\ (<<"orderQuery", "error">> \in inv[i].failed) => inv[i].nextOrderIndex = 0
        /\ inv[i].result.success => \A f \in inv[i].failed : IsTolerated(f)

C3_Witness ==
    \E i \in Invs :
        /\ Returned(i)
        /\ inv[i].result.success
        /\ inv[i].failed = {<<"projectUpdate", "error">>, <<"orderQuery", "error">>}
        /\ \E s \in screens : s.project_id = inv[i].finalProjectId /\ s.id # inv[i].screenId

\* C4: within one invocation each external operation is made at most once,
\* whether it succeeds or fails.
C4_NoRetry ==
    \A i \in Invs : \A op \in ExternalOps : Count(inv[i].log, op) <= 1

C4_Witness ==
    \E i \in Invs :
        /\ Returned(i)
        /\ <<"upload", "error">> \in inv[i].failed
        /\ <<"projectUpdate", "error">> \in inv[i].failed
        /\ Count(inv[i].log, "upload") = 1
        /\ Count(inv[i].log, "projectUpdate") = 1


\* the writes of one kind an invocation has made
Writes(i, kind, table) ==
    {k \in DOMAIN inv[i].wrote :
        inv[i].wrote[k].kind = kind /\ inv[i].wrote[k].table = table}

\* C5: an invocation that returns success=true has inserted exactly one
\* screen row and exactly one screen_versions row (version_number 1,
\* is_current true, screen_id the id of the new screen) and uploaded exactly
\* one HTML blob; it has inserted a project row if and only if it was called
\* without a projectId (undefined or the empty string); and the projectId it
\* returns is the id of an existing project, the one the new screen belongs to.
C5_SuccessWrites ==
    \A i \in Invs :
        inv[i].result.success =>
            /\ Cardinality(Writes(i, "insert", "screens")) = 1
            /\ Cardinality(Writes(i, "insert", "screen_versions")) = 1
            /\ Cardinality(Writes(i, "upload", "storage")) = 1
            /\ Cardinality(Writes(i, "insert", "projects")) =
                   IF FalsyId(inv[i].projectId) THEN 1 ELSE 0
            /\ \A k \in Writes(i, "insert", "screens") :
                 /\ Cardinality({s \in screens : s.id = inv[i].wrote[k].key}) = 1
                 /\ \A s \in screens :
                      s.id = inv[i].wrote[k].key =>
                          /\ s.project_id = inv[i].result.projectId
                          /\ \E p \in projects : p.id = s.project_id
                 /\ \A j \in Writes(i, "insert", "screen_versions") :
                      /\ Cardinality({v \in screen_versions :
                                         v.id = inv[i].wrote[j].key}) = 1
                      /\ \A v \in screen_versions :
                           v.id = inv[i].wrote[j].key =>
                               /\ v.version_number = 1
                               /\ v.is_current
                               /\ v.screen_id = inv[i].wrote[k].key
            /\ \A k \in Writes(i, "upload", "storage") :
                 \E b \in storage : b.path = inv[i].wrote[k].key
            /\ \A k \in Writes(i, "insert", "projects") :
                 inv[i].wrote[k].key = inv[i].result.projectId

C5_Witness ==
    \E i \in Invs :
        /\ Returned(i) /\ inv[i].result.success
        /\ inv[i].projectId = ""
        /\ Cardinality(Writes(i, "insert", "projects")) = 1
        /\ \E s \in screens : s.project_id = inv[i].result.projectId

\* C6 as claimed: no step of an invocation changes or removes a project,
\* screen or screen_versions row that exists.
C6_RowsNeverChange ==
    [][/\ projects \subseteq projects'
       /\ screens \subseteq screens'
       /\ screen_versions \subseteq screen_versions']_vars

\* C6 amended: no step of an invocation removes a row or changes a screen or
\* screen_versions row, and the only change to an existing project row is to
\* its updated_at, made by an invocation that was called with the id of that
\* project and found it owned by the current user; everything else the action
\* writes is an insert.
C6_OnlyUpdatedAtChanges ==
    [][/\ screens \subseteq screens'
       /\ screen_versions \subseteq screen_versions'
       /\ storage \subseteq storage'
       /\ \A p \in projects :
            \E q \in projects' :
                /\ q.id = p.id
                /\ [q EXCEPT !.updated_at = p.updated_at] = p
                /\ q.updated_at # p.updated_at =>
                       \E i \in Invs :
                           /\ inv[i].pc = "projectUpdate"
                           /\ inv'[i].pc = "getPrompt"
                           /\ inv[i].projectId = p.id
                           /\ inv[i].userId = p.user_id
       /\ \A q \in projects' : Cardinality({r \in projects' : r.id = q.id}) = 1]_vars

C6_Witness ==
    /\ \E p \in projects : p.id = SeedProjectId /\ p.updated_at > 0
    /\ \E p \in projects : p.id # SeedProjectId
    /\ \E i \in Invs : Writes(i, "update", "projects") # {}

\* a blob at the path of a screen of the project
HasBlob(projectId) ==
    \E b \in storage, n \in 1..MaxCalls :
        b.path = HtmlFilePath(projectId, RandomUUID("s", n))

\* a project created by an invocation, with no screen and no blob
ProjectWithoutScreen ==
    \E p \in projects :
        /\ p.id # SeedProjectId
        /\ ~\E s \in screens : s.project_id = p.id
        /\ ~HasBlob(p.id)

BlobWithoutScreen ==
    \E b \in storage : ~\E s \in screens : b.path = HtmlFilePath(s.project_id, s.id)

ScreenWithoutVersion ==
    \E s \in screens : ~\E v \in screen_versions : v.screen_id = s.id

\* where an invocation that has ended made its last step
EndedAt(i, ops) == Returned(i) /\ Last1(inv[i].log) \in ops

\* C7: what an invocation has written stays when the invocation returns
\* success=false: the project row it inserted is there, without a screen,
\* when the prompt fetch, the model call, the order query or the upload
\* failed; the blob is there, without a screen row, when the screen insert
\* failed; the screen row is there, without a screen_versions row, when the
\* version insert failed.
C7_NoRecovery ==
    \A i \in Invs :
        (Returned(i) /\ ~inv[i].result.success) =>
            /\ \A k \in Writes(i, "insert", "projects") :
                 \E p \in projects : p.id = inv[i].wrote[k].key
            /\ \A k \in Writes(i, "upload", "storage") :
                 \E b \in storage : b.path = inv[i].wrote[k].key
            /\ \A k \in Writes(i, "insert", "screens") :
                 \E s \in screens : s.id = inv[i].wrote[k].key
            /\ (/\ EndedAt(i, {"getPrompt", "generateObject", "orderQuery", "upload"})
                /\ FalsyId(inv[i].projectId)) =>
                   /\ \E p \in projects : p.id = inv[i].finalProjectId
                   /\ ~\E s \in screens : s.project_id = inv[i].finalProjectId
            /\ EndedAt(i, {"screenInsert"}) =>
                   /\ \E b \in storage : b.path = inv[i].htmlFilePath
                   /\ ~\E s \in screens : s.id = inv[i].screenId
            /\ EndedAt(i, {"versionInsert"}) =>
                   /\ \E s \in screens : s.id = inv[i].screenId
                   /\ ~\E v \in screen_versions : v.screen_id = inv[i].screenId

C7_Witness ==
    /\ ProjectWithoutScreen
    /\ BlobWithoutScreen
    /\ ScreenWithoutVersion
    /\ \E i \in Invs : Returned(i) /\ ~inv[i].result.success /\ inv[i].wrote # <<>>

\* two invocations for one project, neither of which saw the screen of the
\* other when it read the last order_index, and which read alike
ReadTogether(i, j) ==
    /\ i # j
    /\ inv[i].finalProjectId = inv[j].finalProjectId
    /\ inv[i].seen = inv[j].seen
    /\ (<<"orderQuery", "error">> \in inv[i].failed) =
           (<<"orderQuery", "error">> \in inv[j].failed)

\* C8: nothing makes order_index unique: when two invocations for one
\* project have both read the last order_index before either inserted its
\* screen, both inserts go through and when both invocations succeed the two
\* screens carry the same order_index in that project.
C8_DuplicateOrderIndex ==
    \A i, j \in Invs :
        (/\ ReadTogether(i, j)
         /\ inv[i].result.success
         /\ inv[j].result.success) =>
            \E s, t \in screens :
                /\ s.id = inv[i].screenId
                /\ t.id = inv[j].screenId
                /\ s.id # t.id
                /\ s.project_id = t.project_id
                /\ s.order_index = t.order_index

C8_Witness ==
    \E i, j \in Invs :
        /\ ReadTogether(i, j)
        /\ inv[i].seen # {}
        /\ <<"orderQuery", "error">> \notin inv[i].failed
        /\ inv[i].result.success
        /\ inv[j].result.success
        /\ \E s, t \in screens :
             /\ s.id = inv[i].screenId
             /\ t.id = inv[j].screenId
             /\ s.project_id = SeedProjectId
             /\ t.project_id = SeedProjectId
             /\ s.order_index = t.order_index
             /\ s.order_index = MaxSeedScreens

\* the body of the response that grants unlimited credits
IsUnlimited(body) ==
    /\ body.credits = 999999
    /\ body.plan = "unlimited"
    /\ body.hasSubscription

\* C9 as claimed: every GET of the credits route is answered with credits
\* 999999, plan 'unlimited' and hasSubscription true.
C9_AlwaysUnlimited ==
    credits.pc = "responded" => (credits.status = 200 /\ IsUnlimited(credits.body))

\* C9 amended: a GET of the credits route is answered with credits 999999,
\* plan 'unlimited' and hasSubscription true exactly when getUser returns a
\* user and no error; when it returns an error or no user the answer is 401
\* 'User not authenticated', and when createClient or getUser throws it is
\* 500 'Failed to get credit status'.
C9_UnlimitedWhenAuthenticated ==
    credits.pc = "responded" =>
        IF credits.thrown # {}
        THEN /\ credits.status = 500
             /\ credits.body.error = "Failed to get credit status"
        ELSE IF credits.error \/ credits.user = Null
             THEN /\ credits.status = 401
                  /\ credits.body.error = "User not authenticated"
             ELSE /\ credits.status = 200
                  /\ IsUnlimited(credits.body)

C9_Witness ==
    /\ credits.pc = "responded"
    /\ credits.user \in Users
    /\ ~credits.error
    /\ credits.status = 200
    /\ IsUnlimited(credits.body)

\* C10: a prompt that is empty or only whitespace (or no string at all) is
\* rejected with 'Prompt is required'; otherwise a prompt whose untrimmed
\* length exceeds 1000 is rejected with 'Prompt is too long (max 1000
\* characters)'; a prompt with a non-whitespace character and a length of 1
\* to 1000 passes and the current-user lookup is made.
C10_PromptValidation ==
    \A i \in Invs :
        inv[i].pc # "idle" =>
            LET p == inv[i].prompt
                blank == ~p.isString \/ p.core = 0
                len == p.lead + p.core + p.trail
            IN /\ blank =>
                     /\ Returned(i)
                     /\ inv[i].result = Failure("Prompt is required")
                     /\ inv[i].log = <<"validate">>
               /\ (~blank /\ len > 1000) =>
                     /\ Returned(i)
                     /\ inv[i].result = Failure("Prompt is too long (max 1000 characters)")
                     /\ inv[i].log = <<"validate">>
               /\ (~blank /\ len >= 1 /\ len <= 1000) =>
                     /\ inv[i].log[1] = "validate"
                     /\ \/ inv[i].pc = "getCurrentUser" /\ Len(inv[i].log) = 1
                        \/ Len(inv[i].log) >= 2 /\ inv[i].log[2] = "getCurrentUser"

C10_Witness ==
    \E i \in Invs :
        /\ inv[i].prompt = Str(1, MaxPromptLen - 1, 0)
        /\ inv[i].pc = "getCurrentUser"
        /\ inv[i].log = <<"validate">>

\* the store as it was before any invocation
StoreUntouched ==
    /\ clock = 0
    /\ \A p \in projects : p.id = SeedProjectId /\ p.updated_at = 0
    /\ \E k \in 0..MaxSeedScreens :
         /\ screens = SeedScreens(k)
         /\ screen_versions = SeedVersions(k)
         /\ storage = SeedBlobs(k)

\* C11: an invocation rejected by the prompt validation has made no other
\* step, not even the current-user lookup; one rejected because no user is
\* signed in has made the validation and the lookup only and returns 'Not
\* authenticated'. Either way it has read or written no table, fetched no
\* prompt, invoked no model, uploaded no blob, and the store is as it was.
C11_RejectionTouchesNothing ==
    \A i \in Invs :
        /\ inv[i].result \in {Failure("Prompt is required"),
                              Failure("Prompt is too long (max 1000 characters)")} =>
              /\ inv[i].log = <<"validate">>
              /\ inv[i].userId = IdleInv.userId
              /\ inv[i].wrote = <<>>
              /\ StoreUntouched
        /\ <<"getCurrentUser", "error">> \in inv[i].failed =>
              /\ Returned(i)
              /\ inv[i].result = Failure("Not authenticated")
              /\ inv[i].log = <<"validate", "getCurrentUser">>
              /\ inv[i].wrote = <<>>
              /\ StoreUntouched

C11_Witness ==
    \E i \in Invs :
        /\ Returned(i)
        /\ inv[i].result = Failure("Not authenticated")
        /\ inv[i].prompt = Str(1, MaxPromptLen - 1, 0)
        /\ ~FalsyId(inv[i].projectId)

\* the user the project with this id belongs to
OwnersOf(projectId) == {p.user_id : p \in {q \in projects : q.id = projectId}}

\* C12: an invocation that made the access lookup for a projectId under
\* which no project row with the caller's user id exists has ended with
\* success=false, with 'Project not found or access denied' when the lookup
\* returned, and has made no further step: no updated_at update, no model
\* invocation, no upload, no insert. Hence every updated_at update and every
\* screen insert of an invocation went to a project of that invocation's
\* own user.
C12_NoForeignProject ==
    \A i \in Invs :
        /\ ( /\ "projectAccess" \in {inv[i].log[k] : k \in DOMAIN inv[i].log}
             /\ inv[i].userId \notin OwnersOf(inv[i].projectId) ) =>
              /\ Returned(i)
              /\ ~inv[i].result.success
              /\ inv[i].thrown = {} =>
                    inv[i].result = Failure("Project not found or access denied")
              /\ Last1(inv[i].log) = "projectAccess"
              /\ inv[i].wrote = <<>>
        /\ \A k \in DOMAIN inv[i].wrote :
              LET w == inv[i].wrote[k]
              IN /\ (w.kind = "update" /\ w.table = "projects") =>
                       OwnersOf(w.key) = {inv[i].userId}
                 /\ w.table = "screens" =>
                       \A s \in screens :
                           s.id = w.key => OwnersOf(s.project_id) = {inv[i].userId}

C12_Witness ==
    \E i, j \in Invs :
        /\ Returned(i)
        /\ inv[i].projectId = SeedProjectId
        /\ inv[i].userId \in Users \ {SeedOwner}
        /\ inv[i].result = Failure("Project not found or access denied")
        /\ inv[j].result = Success(SeedProjectId)
        /\ inv[j].userId = SeedOwner

ScreensOf(projectId) == {s \in screens : s.project_id = projectId}

\* the place of a screen in the order of creation: the seeded screens in
\* their order, then the screens of the calls in the order of the calls
CreatedAt(s) ==
    IF \E j \in 1..MaxSeedScreens : s.id = SeedScreenId(j)
    THEN (CHOOSE j \in 1..MaxSeedScreens : s.id = SeedScreenId(j)) - MaxSeedScreens
    ELSE CHOOSE n \in 1..MaxCalls : s.id = RandomUUID("s", n)

\* C13: when the invocations run one after another and every order-index
\* query answers, a screen just inserted has order_index 0 if the project
\* had no screen when the query ran and the highest index plus 1 otherwise,
\* and the screens of every project carry the distinct indices 0..n-1, in
\* the order of their creation.
C13_DenseOrderIndex ==
    /\ \A i \in Invs :
          \A s \in screens :
              (inv[i].pc \in {"versionInsert", "done"} /\ s.id = inv[i].screenId) =>
                  LET before == {q \in screens : q.id \in inv[i].seen}
                  IN /\ before = ScreensOf(s.project_id) \ {s}
                     /\ before = {} => s.order_index = 0
                     /\ before # {} =>
                           \E q \in before :
                               /\ \A r \in before : r.order_index <= q.order_index
                               /\ s.order_index = q.order_index + 1
    /\ \A p \in projects :
          LET S == ScreensOf(p.id)
          IN /\ {s.order_index : s \in S} = 0..(Cardinality(S) - 1)
             /\ \A s, t \in S :
                   CreatedAt(s) < CreatedAt(t) <=> s.order_index < t.order_index

C13_Witness ==
    /\ Cardinality(ScreensOf(SeedProjectId)) = MaxCalls
    /\ \E i \in Invs :
          /\ inv[i].result = Success(SeedProjectId)
          /\ inv[i].nextOrderIndex = MaxCalls - 1

\* C14: every screen_versions row refers to a screen row that exists; the
\* project of that screen exists and belongs to the user in created_by; its
\* html_file_path is projects/{project id}/screens/{screen id}/v1/index.html
\* and a blob is stored there; and the invocation that inserted the row had
\* uploaded to that path before it inserted the screen row, and inserted
\* the screen row before the version row.
C14_VersionRefersToScreen ==
    /\ \A v \in screen_versions :
          \E s \in screens, p \in projects :
              /\ s.id = v.screen_id
              /\ p.id = s.project_id
              /\ p.user_id = v.created_by
              /\ v.html_file_path =
                     "projects/" \o p.id \o "/screens/" \o s.id \o "/v1/index.html"
              /\ \E b \in storage : b.path = v.html_file_path
    /\ \A i \in Invs :
          \A k \in DOMAIN inv[i].wrote :
              inv[i].wrote[k].table = "screen_versions" =>
                  \E v \in screen_versions :
                      /\ v.id = inv[i].wrote[k].key
                      /\ v.created_by = inv[i].userId
                      /\ \E a, b \in DOMAIN inv[i].wrote :
                            /\ a < b /\ b < k
                            /\ inv[i].wrote[a] = [kind |-> "upload", table |-> "storage",
                                                  key |-> v.html_file_path]
                            /\ inv[i].wrote[b] = [kind |-> "insert", table |-> "screens",
                                                  key |-> v.screen_id]

C14_Witness ==
    \E i, j \in Invs :
        /\ i # j
        /\ inv[i].result = Success(SeedProjectId)
        /\ inv[j].result.success /\ inv[j].result.projectId # SeedProjectId
        /\ inv[j].userId # inv[i].userId
        /\ \E v \in screen_versions :
              v.id = inv[j].versionId /\ v.created_by = inv[j].userId

\* C15: once generateUIAndRedirect has its result it has either redirected
\* or thrown, never both: it has redirected, to /project/{projectId}, exactly
\* when the result is success=true with a projectId; otherwise it has thrown
\* an Error with the returned error string as its message, or with 'Failed
\* to generate UI' when the result carries no (or an empty) error string.
C15_RedirectOrThrow ==
    form.pc # "idle" =>
        \E i \in Invs :
            /\ Returned(i)
            /\ LET r == inv[i].result
                   ok == r.success /\ r.projectId \notin {Undefined, Null, ""}
               IN /\ form.pc \in {"redirected", "threw"}
                  /\ form.pc = "redirected" <=> ok
                  /\ ok => form.url = "/project/" \o r.projectId
                           /\ form.message = Undefined
                  /\ ~ok => /\ form.url = Undefined
                            /\ form.message # Undefined
                            /\ r.error \notin {Undefined, ""} => form.message = r.error
                            /\ r.error \in {Undefined, ""} =>
                                  form.message = "Failed to generate UI"

C15_Witness ==
    /\ form.pc = "threw"
    /\ form.message = "Failed to generate UI"
    /\ \E i \in Invs : Returned(i) /\ inv[i].projectId = Null

\* C16: in ProjectFlow at most one call of generateUIComponent is
\* outstanding; a call is made only by a submit (button or Cmd/Ctrl+Enter)
\* while isLoading is false and the prompt is not blank, with the trimmed
\* prompt, and setIsGenerating(true) comes before the call.
C16_OneCallOutstanding ==
    [][ /\ flow'.calls <= 1
        /\ flow'.made > flow.made =>
              /\ ~flow.isLoading
              /\ flow.calls = 0
              /\ Length(Trim(flow.prompt)) > 0
              /\ flow'.sent = Trim(flow.prompt)
              /\ flow'.last \in {"button", "key"}
              /\ flow'.isGenerating
              /\ flow'.log = <<"setIsGenerating(true)", "generateUIComponent">>
        /\ flow.isLoading => flow'.made = flow.made ]_vars

C16_Witness ==
    /\ flow.calls = 1
    /\ flow.isLoading
    /\ flow.last = "ignored"
    /\ flow.made = MaxCalls - 1

Handlers == 1..MaxInv

Steps(log) == {log[n] : n \in DOMAIN log}

\* C17: in ProjectFlow and in Dashboard isGenerating is true once a submit
\* has started and false once its handler has finished, however the call of
\* generateUIComponent settled (success, no success, rejection) and, in
\* Dashboard, however the refetch and router.push ended; while no handler is
\* running isGenerating is false.
C17_IsGeneratingReset ==
    [][ /\ flow'.made > flow.made => flow'.isGenerating
        /\ flow'.calls < flow.calls => ~flow'.isGenerating
        /\ flow'.calls = 0 => ~flow'.isGenerating
        /\ \A k \in Handlers :
              /\ (dash.h[k].pc = "idle" /\ dash'.h[k].pc # "idle") => dash'.isGenerating
              /\ (dash.h[k].pc # "done" /\ dash'.h[k].pc = "done") => ~dash'.isGenerating
        /\ (\A k \in Handlers : dash'.h[k].pc \in {"idle", "done"}) =>
              ~dash'.isGenerating ]_vars

C17_Witness ==
    /\ ~dash.isGenerating
    /\ \A k \in Handlers : dash.h[k].pc = "done"
    /\ \E k \in Handlers : "router.push threw" \in Steps(dash.h[k].log)
    /\ \E k \in Handlers : "rejected" \in Steps(dash.h[k].log)

\* handlePromptSubmit k takes the step in which it gets a result without
\* success
FailureHandled(k) ==
    /\ dash.h[k].pc = "generateUIComponent"
    /\ dash'.h[k].pc = "done"
    /\ dash'.h[k].result \in DashResults
    /\ ~dash'.h[k].result.success

\* handlePromptSubmit k takes the step in which it calls router.push
PushedBy(k) ==
    /\ dash'.h[k] # dash.h[k]
    /\ Len(dash'.nav) > Len(dash.nav)

\* C18 as claimed: router.push is called only after success=true with a
\* projectId and only after the refetch of the projects has finished; on a
\* result without success there is no refetch and no navigation, and the
\* error state is still null.
C18_ErrorStaysNull ==
    [][ \A k \in Handlers :
          /\ PushedBy(k) =>
                /\ dash'.h[k].result.success
                /\ ~FalsyId(dash'.h[k].result.projectId)
                /\ Last1(dash'.nav) = "/project/" \o dash'.h[k].result.projectId
                /\ "fetchProjects settled" \in Steps(dash'.h[k].log)
          /\ FailureHandled(k) =>
                /\ dash'.nav = dash.nav
                /\ dash'.h[k].log = <<"generateUIComponent">>
                /\ dash'.error = Null ]_vars

\* C18 amended: router.push is called only after success=true with a
\* projectId; when the handler was rendered with a user, only after the
\* refetch of the projects has finished, and when it was rendered without
\* one, with no refetch at all. On a result without success there is no
\* refetch and no navigation and the handler leaves the error state as it
\* is: the returned error string is never shown, and the error state is not
\* null then only if the fetchProjects of the effect or another submit ran
\* meanwhile.
C18_ErrorNotSet ==
    [][ \A k \in Handlers :
          /\ PushedBy(k) =>
                /\ dash'.h[k].result.success
                /\ ~FalsyId(dash'.h[k].result.projectId)
                /\ Last1(dash'.nav) = "/project/" \o dash'.h[k].result.projectId
                /\ dash.h[k].user # Null =>
                      /\ dash.h[k].pc = "fetchProjects"
                      /\ "fetchProjects settled" \in Steps(dash'.h[k].log)
                /\ dash.h[k].user = Null =>
                      "fetchProjects" \notin Steps(dash'.h[k].log)
          /\ FailureHandled(k) =>
                /\ dash'.nav = dash.nav
                /\ dash'.h[k].log = <<"generateUIComponent">>
                /\ dash'.loading = dash.loading
                /\ dash'.error = dash.error
                /\ dash'.error # dash'.h[k].result.error
                /\ dash'.error # Null =>
                      \/ dash.effect = "done"
                      \/ \E j \in Handlers \ {k} : dash.h[j].pc # "idle" ]_vars

C18_Witness ==
    \E k, j \in Handlers :
        /\ dash.h[k].pc = "done"
        /\ dash.h[k].result \in DashResults
        /\ ~dash.h[k].result.success
        /\ dash.error = "Failed to load projects"
        /\ dash.nav # <<>>
        /\ dash.h[j].user = Null
        /\ "router.push" \in Steps(dash.h[j].log)

====
